---- MODULE Spec2Model ----
(***************************************************************************)
(* Model of main.py: enumeration of the 9-point coplanar subsets           *)
(* ("planes") of the lattice {-1,0,1}^4 by a depth-first generator         *)
(* (find_planes) pruned by is_solution_subseq_fast and decided by          *)
(* is_solution_subseq.                                                     *)
(***************************************************************************)
EXTENDS Integers, Sequences, FiniteSets, TLC

VARIABLES stack, planes, yielded, stdout, cand, qi, qj

vars == <<stack, planes, yielded, stdout, cand, qi, qj>>

(***************************************************************************)
(* Program constants and model bounds.                                     *)
(***************************************************************************)
\* main.py:80  remaining = 9, the size of a plane
PlaneSize == 9

\* The root call of Spec searches the last Window points of the lattice:
\* find_planes(NumPoints - Window, [], 9).  From the moment the root loop of
\* find_planes() reaches i = NumPoints - Window the program makes the same
\* calls.
Window == 27

\* The root call of SpecBrute searches the last BruteWindow points; the
\* unpruned enumeration it is compared with visits every 9-subset of them.
BruteWindow == 20

\* The candidate explorer draws its indices from the last CandWindow points,
\* and grows every candidate that starts within the last Dense points.
CandWindow == 27
Dense == 10

(***************************************************************************)
(* The lattice and vector arithmetic.                                      *)
(***************************************************************************)
\* range(-1, 2)
Range3 == <<-1, 0, 1>>

RECURSIVE Flatten(_)
\* the lists of a list, one after the other: what a nested for clause of a
\* list comprehension produces from the lists of its inner clauses
Flatten(ss) == IF ss = <<>> THEN <<>> ELSE Head(ss) \o Flatten(Tail(ss))

\* mutant: the comprehension nests its loops in the opposite order
all_points_Reversed ==
    Flatten([w \in 1..3 |->
      Flatten([z \in 1..3 |->
        Flatten([y \in 1..3 |->
          [x \in 1..3 |-> <<Range3[x], Range3[y], Range3[z], Range3[w]>>]])])])

\* main.py:3
all_points ==
    Flatten([x \in 1..3 |->
      Flatten([y \in 1..3 |->
        Flatten([z \in 1..3 |->
          [w \in 1..3 |-> <<Range3[x], Range3[y], Range3[z], Range3[w]>>]])])])

\* len(all_points)
NumPoints == Len(all_points)

\* all_points[i], Python's 0-based indexing
pointAt(i) == all_points[i + 1]

\* numpy arithmetic on 4-vectors
VSub(a, b) == <<a[1] - b[1], a[2] - b[2], a[3] - b[3], a[4] - b[4]>>
VScale(c, a) == <<c * a[1], c * a[2], c * a[3], c * a[4]>>
Dot(a, b) == a[1] * b[1] + a[2] * b[2] + a[3] * b[3] + a[4] * b[4]
Zero4 == <<0, 0, 0, 0>>

\* pts = [all_points[i] for i in pt_idxs]
PointsOf(pt_idxs) == [k \in 1..Len(pt_idxs) |-> pointAt(pt_idxs[k])]

(***************************************************************************)
(* is_solution_subseq_fast (main.py:5-41)                                  *)
(***************************************************************************)
\* mutant: only the differences among the last four points are collected
Deltas_Recent(pt_idxs) ==
    {VSub(pointAt(pt_idxs[k]), pointAt(pt_idxs[k - 1])) :
        k \in {m \in 2..Len(pt_idxs) : m > Len(pt_idxs) - 3}}

\* lines 39-40
Deltas(pt_idxs) ==
    {VSub(pointAt(pt_idxs[k]), pointAt(pt_idxs[k - 1])) : k \in 2..Len(pt_idxs)}

\* mutant: the threshold of line 41 is one too low
is_solution_subseq_fast_AtMostOne(pt_idxs) == Cardinality(Deltas(pt_idxs)) <= 1

\* mutant: the threshold of line 41 is one too high
is_solution_subseq_fast_AtMostThree(pt_idxs) == Cardinality(Deltas(pt_idxs)) <= 3

\* line 41
is_solution_subseq_fast(pt_idxs) == Cardinality(Deltas(pt_idxs)) <= 2

(***************************************************************************)
(* is_solution_subseq (main.py:43-75).  The divisions of lines 69-72 are   *)
(* carried out over the rationals, each rational vector being kept as an   *)
(* integer vector over a common positive integer denominator:              *)
(*   basis2 (orthogonalised)   = OrthBasis2 / n1,    n1 = basis1.basis1    *)
(*   first residual of p       = Resid1(p) / n1                            *)
(*   second residual of p      = Resid2(p) / (n1 * n2), n2 = OrthBasis2^2  *)
(* so that np.allclose(residual, 0) of line 73 is the test Resid2(p) = 0:  *)
(* n1 * n2 stays far below 10^8, hence a nonzero residual has a component   *)
(* far above the tolerance 1e-8 of np.allclose.                            *)
(***************************************************************************)
\* pts[1:] with the origin subtracted (lines 50-54)
Relative(pt_idxs) ==
    [k \in 1..(Len(pt_idxs) - 1) |->
        VSub(pointAt(pt_idxs[k + 1]), pointAt(pt_idxs[1]))]

\* mutant: line 63 forgets the multiple 2*basis1
Usable_NoDouble(p, basis1) ==
    /\ p # VScale(-1, basis1)
    /\ p # VScale(-2, basis1)

\* mutant: line 63 accepts every vector
Usable_Always(p, basis1) == TRUE

\* the test of line 63
Usable(p, basis1) ==
    /\ p # VScale(-1, basis1)
    /\ p # VScale(-2, basis1)
    /\ p # VScale(2, basis1)

RECURSIVE FirstUsable(_, _)
\* lines 61-65: the position in pts of the first vector from position k on
\* that passes the test of line 63; 0 stands for basis2 = None
FirstUsable(rel, k) ==
    IF k > Len(rel) THEN 0
    ELSE IF Usable(rel[k], rel[1]) THEN k
    ELSE FirstUsable(rel, k + 1)

\* line 69, times basis1.basis1
OrthBasis2(basis1, basis2) ==
    VSub(VScale(Dot(basis1, basis1), basis2), VScale(Dot(basis1, basis2), basis1))

\* line 71, times basis1.basis1
Resid1(basis1, p) ==
    VSub(VScale(Dot(basis1, basis1), p), VScale(Dot(basis1, p), basis1))

\* line 72, times basis1.basis1 * (OrthBasis2.OrthBasis2)
Resid2(ob2, r1) == VSub(VScale(Dot(ob2, ob2), r1), VScale(Dot(ob2, r1), ob2))

\* the divisors of lines 69, 71 and 72 are nonzero
DivOK(basis1, ob2) == Dot(basis1, basis1) # 0 /\ Dot(ob2, ob2) # 0

\* lines 68-75.  A zero divisor makes numpy produce nan, which np.allclose
\* (line 73) never accepts.
AllReduce(rel, basis1, ob2) ==
    /\ DivOK(basis1, ob2)
    /\ \A k \in 1..Len(rel) : Resid2(ob2, Resid1(basis1, rel[k])) = Zero4

\* lines 55-75, on the relative vectors
SubseqOfRelative(rel) ==
    IF Len(rel) < 2 THEN TRUE
    ELSE LET k2 == FirstUsable(rel, 2)
         IN  IF k2 = 0 THEN TRUE
             ELSE AllReduce(rel, rel[1], OrthBasis2(rel[1], rel[k2]))

is_solution_subseq(pt_idxs) ==
    IF Len(pt_idxs) = 0 THEN TRUE
    ELSE SubseqOfRelative(Relative(pt_idxs))

(***************************************************************************)
(* find_planes (main.py:80-90) as a stack of generator frames, consumed by *)
(* planes = list(find_planes()) (main.py:92).                              *)
(*   stack   the active calls, innermost last; a frame holds the call's    *)
(*           arguments, its loop variable i and its position pc            *)
(*   planes  the values the consumer has received                          *)
(*   yielded the index sequence (base) behind each received value          *)
(*   stdout  what has been written to standard output                      *)
(***************************************************************************)
\* start_idx of the root call for a window of w points: 0, the program's
\* default, when the window is the whole lattice
RootStart(w) == IF w >= NumPoints THEN 0 ELSE NumPoints - w

Frame(start_idx, base, remaining) ==
    [start_idx |-> start_idx, base |-> base, remaining |-> remaining,
     i |-> start_idx, pc |-> "entry"]

Top == stack[Len(stack)]

\* the innermost call finishes; the caller's for loop takes its next value
Returned ==
    LET rest == SubSeq(stack, 1, Len(stack) - 1)
    IN  IF rest = <<>> THEN rest
        ELSE [rest EXCEPT ![Len(rest)].i = @ + 1]

\* mutant: the loop of line 85 runs one index too far
InLoopRange_OffByOne(f) == f.i < NumPoints - f.remaining + 2

\* range(start_idx, len(all_points) - remaining + 1), line 85
InLoopRange(f) == f.i < NumPoints - f.remaining + 1

\* the state as list(find_planes(first)) starts, line 92
Started(first) ==
    /\ stack = << Frame(first, <<>>, PlaneSize) >>
    /\ planes = <<>>
    /\ yielded = <<>>
    /\ stdout = <<>>
    /\ cand = <<>>
    /\ qi = 0
    /\ qj = 0

Init == Started(RootStart(Window))

InitBrute == Started(RootStart(BruteWindow))

\* lines 81-84: the base fails the fast test, the call yields nothing
Prune ==
    /\ stack # <<>>
    /\ Top.pc = "entry"
    /\ Top.remaining # 0
    /\ ~is_solution_subseq_fast(Top.base)
    /\ stack' = Returned
    /\ UNCHANGED <<planes, yielded, stdout, cand, qi, qj>>

\* lines 81-85: the base passes the fast test, the loop starts
EnterLoop ==
    /\ stack # <<>>
    /\ Top.pc = "entry"
    /\ Top.remaining # 0
    /\ is_solution_subseq_fast(Top.base)
    /\ stack' = [stack EXCEPT ![Len(stack)].pc = "loop"]
    /\ UNCHANGED <<planes, yielded, stdout, cand, qi, qj>>

\* mutant: line 86 builds [i] + base instead of base + [i]
Recurse_Prepend ==
    /\ stack # <<>>
    /\ Top.pc = "loop"
    /\ InLoopRange(Top)
    /\ stack' = Append(stack,
                    Frame(Top.i + 1, <<Top.i>> \o Top.base, Top.remaining - 1))
    /\ UNCHANGED <<planes, yielded, stdout, cand, qi, qj>>

\* mutant: line 86 passes start_idx instead of i + 1
Recurse_SameStart ==
    /\ stack # <<>>
    /\ Top.pc = "loop"
    /\ InLoopRange(Top)
    /\ stack' = Append(stack,
                    Frame(Top.start_idx, Append(Top.base, Top.i), Top.remaining - 1))
    /\ UNCHANGED <<planes, yielded, stdout, cand, qi, qj>>

\* lines 85-86: one iteration of the loop calls find_planes recursively
Recurse ==
    /\ stack # <<>>
    /\ Top.pc = "loop"
    /\ InLoopRange(Top)
    /\ stack' = Append(stack,
                    Frame(Top.i + 1, Append(Top.base, Top.i), Top.remaining - 1))
    /\ UNCHANGED <<planes, yielded, stdout, cand, qi, qj>>

\* line 85: the loop is exhausted, the call ends
LoopDone ==
    /\ stack # <<>>
    /\ Top.pc = "loop"
    /\ ~InLoopRange(Top)
    /\ stack' = Returned
    /\ UNCHANGED <<planes, yielded, stdout, cand, qi, qj>>

\* lines 88-90: a full candidate passes the exact test: a dot is printed and
\* the plane is yielded through the chain of yield from to the consumer
Emit ==
    /\ stack # <<>>
    /\ Top.pc = "entry"
    /\ Top.remaining = 0
    /\ is_solution_subseq(Top.base)
    /\ stdout' = Append(stdout, ".")
    /\ planes' = Append(planes, PointsOf(Top.base))
    /\ yielded' = Append(yielded, Top.base)
    /\ stack' = [stack EXCEPT ![Len(stack)].pc = "yielded"]
    /\ UNCHANGED <<cand, qi, qj>>

\* line 90: the generator is resumed after its yield and ends
Resume ==
    /\ stack # <<>>
    /\ Top.pc = "yielded"
    /\ stack' = Returned
    /\ UNCHANGED <<planes, yielded, stdout, cand, qi, qj>>

\* mutant: the print of line 89 stands before the test of line 88
Reject_Printing ==
    /\ stack # <<>>
    /\ Top.pc = "entry"
    /\ Top.remaining = 0
    /\ ~is_solution_subseq(Top.base)
    /\ stdout' = Append(stdout, ".")
    /\ stack' = Returned
    /\ UNCHANGED <<planes, yielded, cand, qi, qj>>

\* line 88: a full candidate fails the exact test
Reject ==
    /\ stack # <<>>
    /\ Top.pc = "entry"
    /\ Top.remaining = 0
    /\ ~is_solution_subseq(Top.base)
    /\ stack' = Returned
    /\ UNCHANGED <<planes, yielded, stdout, cand, qi, qj>>

Next == Prune \/ EnterLoop \/ Recurse \/ LoopDone \/ Emit \/ Resume \/ Reject

Spec == Init /\ [][Next]_vars

SpecBrute == InitBrute /\ [][Next]_vars

\* the generator is exhausted
Done == stack = <<>>

(***************************************************************************)
(* Reference notions the properties are stated with.                       *)
(***************************************************************************)
\* lexicographic order on sequences of integers of equal length
LexLess(a, b) ==
    \E k \in 1..Len(a) :
        /\ a[k] < b[k]
        /\ \A m \in 1..(k - 1) : a[m] = b[m]

StrictlyIncreasing(s) == \A k \in 1..(Len(s) - 1) : s[k] < s[k + 1]

\* 3x3 minor of the vectors a, b, c on the coordinates i, j, k
Det3(a, b, c, i, j, k) ==
      a[i] * (b[j] * c[k] - b[k] * c[j])
    - a[j] * (b[i] * c[k] - b[k] * c[i])
    + a[k] * (b[i] * c[j] - b[j] * c[i])

\* the vectors of the sequence vs span a subspace of dimension at most 2:
\* every 3x3 minor of the matrix they form vanishes
RankAtMost2(vs) ==
    \A a \in 1..Len(vs) : \A b \in (a + 1)..Len(vs) : \A c \in (b + 1)..Len(vs) :
        \A i \in 1..2 : \A j \in (i + 1)..3 : \A k \in (j + 1)..4 :
            Det3(vs[a], vs[b], vs[c], i, j, k) = 0

\* affine coplanarity of the points of an index sequence
Coplanar(pt_idxs) ==
    Len(pt_idxs) <= 1 \/ RankAtMost2(Relative(pt_idxs))

\* u and v are linearly independent: some 2x2 minor is nonzero
LinIndep(u, v) ==
    \E i \in 1..3 : \E j \in (i + 1)..4 : u[i] * v[j] - u[j] * v[i] # 0

SeqRange(s) == {s[k] : k \in 1..Len(s)}

RECURSIVE BruteForceAgrees(_, _, _, _)
\* The unpruned enumeration (find_planes without the test of lines 83-84)
\* run from the call (start_idx, base, remaining): every full candidate it
\* reaches passes is_solution_subseq exactly when it is among emitted.
BruteForceAgrees(start_idx, base, remaining, emitted) ==
    IF remaining = 0
    THEN is_solution_subseq(base) <=> base \in emitted
    ELSE \A i \in start_idx..(NumPoints - remaining) :
             BruteForceAgrees(i + 1, Append(base, i), remaining - 1, emitted)

(***************************************************************************)
(* Candidate explorer: the two tests applied to candidates (strictly       *)
(* increasing index sequences of length 0..PlaneSize) grown one index at a *)
(* time.  A candidate is grown when it is coplanar, or passes the fast     *)
(* test, or starts within the last Dense points.                           *)
(***************************************************************************)
Idle ==
    /\ stack = <<>>
    /\ planes = <<>>
    /\ yielded = <<>>
    /\ stdout = <<>>

InitCand ==
    /\ Idle
    /\ cand = <<>>
    /\ qi = 0
    /\ qj = 0

Growable(c) ==
    IF Coplanar(c) THEN TRUE
    ELSE IF is_solution_subseq_fast(c) THEN TRUE
    ELSE c # <<>> /\ c[1] >= NumPoints - Dense

Extend ==
    /\ Len(cand) < PlaneSize
    /\ Growable(cand)
    /\ \E i \in (NumPoints - CandWindow)..(NumPoints - 1) :
          /\ i > (IF cand = <<>> THEN -1 ELSE cand[Len(cand)])
          /\ cand' = Append(cand, i)
    /\ UNCHANGED <<stack, planes, yielded, stdout, qi, qj>>

NextCand == Extend

SpecCand == InitCand /\ [][NextCand]_vars

(***************************************************************************)
(* Lattice explorer: two indices into all_points.                          *)
(***************************************************************************)
InitLattice ==
    /\ Idle
    /\ cand = <<>>
    /\ qi = 0
    /\ qj = 0

StepI ==
    /\ qi + 1 < NumPoints
    /\ qi' = qi + 1
    /\ UNCHANGED <<stack, planes, yielded, stdout, cand, qj>>

StepJ ==
    /\ qj + 1 < NumPoints
    /\ qj' = qj + 1
    /\ UNCHANGED <<stack, planes, yielded, stdout, cand, qi>>

NextLattice == StepI \/ StepJ

SpecLattice == InitLattice /\ [][NextLattice]_vars

(***************************************************************************)
(* Properties.                                                             *)
(***************************************************************************)
Last(s) == s[Len(s)]

Front(s) == SubSeq(s, 1, Len(s) - 1)

\* position of basis2 among the relative vectors of cand, 0 when none
CandBasis2 == FirstUsable(Relative(cand), 2)

\* C1: when find_planes is exhausted, the index sequences it emitted are
\* exactly the strictly increasing 9-element sequences over the searched
\* indices that pass is_solution_subseq: the unpruned enumeration emits a
\* sequence if and only if the pruned search emitted it, and every emitted
\* sequence is one the unpruned enumeration visits.
C1_EmitsExactlyBruteForce ==
    Done =>
      /\ BruteForceAgrees(RootStart(BruteWindow), <<>>, PlaneSize, SeqRange(yielded))
      /\ \A k \in 1..Len(yielded) :
            /\ Len(yielded[k]) = PlaneSize
            /\ StrictlyIncreasing(yielded[k])
            /\ SeqRange(yielded[k]) \subseteq RootStart(BruteWindow)..(NumPoints - 1)
            /\ planes[k] = PointsOf(yielded[k])

\* C1 witness: the pruned search has run to its end and emitted planes
C1_Witness == Done /\ Len(yielded) >= 2

\* C2: on every candidate, is_solution_subseq (exact arithmetic) returns
\* true if and only if the points are affinely coplanar.
C2_ExactIffCoplanar == is_solution_subseq(cand) <=> Coplanar(cand)

\* C2 witness: a full candidate that is coplanar and for which the scan for
\* basis2 had to skip a multiple of basis1
C2_Witness ==
    /\ Len(cand) = PlaneSize
    /\ is_solution_subseq(cand)
    /\ CandBasis2 > 2

\* C3: planes are emitted in strictly increasing lexicographic order of
\* their index sequences.
C3_EmittedInLexOrder ==
    \A a \in 1..Len(yielded) : \A b \in (a + 1)..Len(yielded) :
        LexLess(yielded[a], yielded[b])

\* C3 witness: several planes have been emitted, the last two of which
\* differ in their first index
C3_Witness ==
    /\ Len(yielded) >= 3
    /\ yielded[Len(yielded) - 1][1] < Last(yielded)[1]

\* C4: every emitted plane is the list of points of an index sequence of
\* exactly 9 strictly increasing indices, and no two emitted planes have the
\* same index sequence.
C4_NineIncreasingNoDuplicates ==
    /\ Len(planes) = Len(yielded)
    /\ \A a \in 1..Len(yielded) :
          /\ planes[a] = PointsOf(yielded[a])
          /\ Len(yielded[a]) = PlaneSize
          /\ StrictlyIncreasing(yielded[a])
          /\ \A b \in 1..Len(yielded) :
                a # b => (yielded[a] # yielded[b] /\ planes[a] # planes[b])

\* C4 witness: the whole run is over and emitted several planes
C4_Witness == Done /\ Len(planes) >= 3

\* C5: is_solution_subseq_fast is monotone under extension: a candidate that
\* fails keeps failing whatever index is appended; a candidate of length 0
\* or 1 passes.
C5_FastMonotone ==
    /\ Len(cand) <= 1 => is_solution_subseq_fast(cand)
    /\ (Len(cand) < PlaneSize /\ ~is_solution_subseq_fast(cand)) =>
          \A i \in 0..(NumPoints - 1) : ~is_solution_subseq_fast(Append(cand, i))

\* C5 witness: a candidate that fails the fast test although its prefix
\* passed, so that the failure is carried by the last extension
C5_Witness ==
    /\ Len(cand) >= 4
    /\ Len(cand) < PlaneSize
    /\ is_solution_subseq_fast(Front(cand))
    /\ ~is_solution_subseq_fast(cand)

C7_LatticeLexOrdered ==
    /\ NumPoints = 81
    /\ Len(pointAt(qi)) = 4
    /\ \A k \in 1..4 : pointAt(qi)[k] \in {-1, 0, 1}
    /\ qi < qj <=> LexLess(pointAt(qi), pointAt(qj))

\* C7 witness: two different indices in both orders of the lattice's ends
C7_Witness == qi = NumPoints - 1 /\ qj = 1

\* C8: on every candidate of length 2..9 basis1 is not the zero vector, and
\* when a basis2 is selected it is linearly independent of basis1, so that
\* no divisor of lines 69-72 is zero.
C8_NoZeroDivisor ==
    Len(cand) >= 2 =>
      LET rel == Relative(cand)
      IN  /\ rel[1] # Zero4
          /\ Dot(rel[1], rel[1]) # 0
          /\ CandBasis2 # 0 =>
                /\ LinIndep(rel[1], rel[CandBasis2])
                /\ OrthBasis2(rel[1], rel[CandBasis2]) # Zero4
                /\ DivOK(rel[1], OrthBasis2(rel[1], rel[CandBasis2]))

\* C8 witness: a basis2 was selected after a multiple of basis1 was skipped
C8_Witness == Len(cand) >= 4 /\ CandBasis2 > 2

\* C9: on every candidate of 9 indices the fast test and the exact test
\* agree.
C9_FastIffExact ==
    Len(cand) = PlaneSize =>
      (is_solution_subseq_fast(cand) <=> is_solution_subseq(cand))

\* C9 witness: a full candidate that passes both tests
C9_Witness ==
    /\ Len(cand) = PlaneSize
    /\ is_solution_subseq_fast(cand)
    /\ is_solution_subseq(cand)

\* C10: at every call of find_planes, len(base) + remaining = 9 and
\* start_idx + remaining <= 81; every index of a base lies in the table, and
\* a call with remaining > 0 has at least remaining indices left.
C10_CallArgumentsInRange ==
    \A d \in 1..Len(stack) :
        LET f == stack[d]
        IN  /\ Len(f.base) + f.remaining = PlaneSize
            /\ f.start_idx + f.remaining <= NumPoints
            /\ \A k \in 1..Len(f.base) : f.base[k] \in 0..(NumPoints - 1)
            /\ f.remaining > 0 => NumPoints - f.start_idx >= f.remaining

\* C10 witness: a call at full depth whose last index is the last of the
\* table
C10_Witness ==
    /\ Len(stack) = PlaneSize + 1
    /\ Top.remaining = 0
    /\ Last(Top.base) = NumPoints - 1
    /\ Top.start_idx = NumPoints

====
